---------------------------- MODULE Spec2Model ----------------------------
(***************************************************************************)
(* Usage-credit ledger of bolt.diy: the recordUsage handler                *)
(* (app/routes/usage.tsx), the on_usage_log_created trigger (SQL           *)
(* migration) and the Stripe webhook handler                               *)
(* (app/routes/api.stripe.webhook.ts), over the profiles, subscriptions    *)
(* and usage_logs tables.                                                  *)
(*                                                                         *)
(* Three specifications share the store operators below:                   *)
(*   Spec        every store call of a handler is one atomic step; spend   *)
(*               requests and one webhook delivery interleave freely.      *)
(*   SpecSerial  handlers run one at a time, each to completion.           *)
(*   SpecHistory as SpecSerial, for MaxOps operations, each recorded with  *)
(*               its response and the rows it found.                       *)
(***************************************************************************)
EXTENDS Integers, Sequences, FiniteSets

None == "none"

(* ------------------------------ bounds -------------------------------- *)

\* Number of spend requests (request slots in Spec, accepted spends in SpecSerial).
MaxSpends == 2

\* Number of operations of a SpecHistory run.
MaxOps == 3

(* ------------------------- program constants -------------------------- *)

\* usage_credits / usage_limit given to a new profile by handle_new_user.
NEW_USER_CREDITS == 10

\* usage_limit written by the customer.subscription.deleted branch.
FREE_TIER_LIMIT == 100

BASIC_LIMIT == 500

PREMIUM_LIMIT == 2000

ENTERPRISE_LIMIT == 10000

\* usage_credits and usage_limit in the profile insert of the signUp action.
SIGNUP_CREDITS == 100

(* ------------------------------- inputs ------------------------------- *)

Users == {"u1"}

SubIds == {"sub_1"}

Reqs == 1..MaxSpends

\* The share each of MaxSpends concurrent spends asks for in the double-spend test.
FairShare == (NEW_USER_CREDITS \div MaxSpends) + 1

\* creditsUsed values of recordUsage requests (any JSON number passes the type check).
CreditsUsedInputs == {-1, 0, 5, FairShare}

(* ---------------------------- product names --------------------------- *)

\* String.prototype.toLowerCase on the letters that occur in product names.
LowerChar(c) ==
  CASE c = "A" -> "a" [] c = "B" -> "b" [] c = "E" -> "e" [] c = "I" -> "i"
    [] c = "M" -> "m" [] c = "N" -> "n" [] c = "P" -> "p" [] c = "R" -> "r"
    [] c = "S" -> "s" [] c = "T" -> "t" [] c = "U" -> "u"
    [] OTHER -> c

\* A faulty lowering, for comparison: the name is compared as written.
toLowerCase_AsWritten(s) == s

toLowerCase(s) == [i \in 1..Len(s) |-> LowerChar(s[i])]

\* String.prototype.includes.
includes(s, t) ==
  \E i \in 0..(Len(s) - Len(t)) : SubSeq(s, i + 1, i + Len(t)) = t

premium == <<"p","r","e","m","i","u","m">>

enterprise == <<"e","n","t","e","r","p","r","i","s","e">>

\* Rows of the prices table joined with products(name); "price_unlisted" has no row.
PriceIds ==
  {"price_basic", "price_premium", "price_enterprise", "price_bundle", "price_unlisted"}

ProductName(priceId) ==
  CASE priceId = "price_basic" -> <<"A","c","m","e"," ","B","a","s","i","c">>
    [] priceId = "price_premium" ->
         <<"A","c","m","e"," ","P","r","e","m","i","u","m"," ","P","l","a","n">>
    [] priceId = "price_enterprise" ->
         <<"E","N","T","E","R","P","R","I","S","E">>
    [] priceId = "price_bundle" ->
         <<"E","n","t","e","r","p","r","i","s","e"," ","P","r","e","m","i","u","m">>
    [] OTHER -> None

\* A faulty default, for comparison: a price with no product name is given the
\* free tier.
TierForName_DefaultFree(name) ==
  IF name = None THEN [tier |-> "free", usageLimit |-> FREE_TIER_LIMIT]
  ELSE LET productName == toLowerCase(name) IN
       IF includes(productName, premium)
         THEN [tier |-> "premium", usageLimit |-> PREMIUM_LIMIT]
       ELSE IF includes(productName, enterprise)
         THEN [tier |-> "enterprise", usageLimit |-> ENTERPRISE_LIMIT]
       ELSE [tier |-> "basic", usageLimit |-> BASIC_LIMIT]

\* let tier = 'basic'; let usageLimit = 500; if (price?.products?.name) {...}
TierForName(name) ==
  IF name = None THEN [tier |-> "basic", usageLimit |-> BASIC_LIMIT]
  ELSE LET productName == toLowerCase(name) IN
       IF includes(productName, premium)
         THEN [tier |-> "premium", usageLimit |-> PREMIUM_LIMIT]
       ELSE IF includes(productName, enterprise)
         THEN [tier |-> "enterprise", usageLimit |-> ENTERPRISE_LIMIT]
       ELSE [tier |-> "basic", usageLimit |-> BASIC_LIMIT]

TierForPrice(priceId) == TierForName(ProductName(priceId))

\* The same resolution as the invoice.payment_succeeded case writes it.
InvoiceTierForName(name) ==
  IF name = None THEN [tier |-> "basic", usageLimit |-> BASIC_LIMIT]
  ELSE LET productName == toLowerCase(name) IN
       IF includes(productName, premium)
         THEN [tier |-> "premium", usageLimit |-> PREMIUM_LIMIT]
       ELSE IF includes(productName, enterprise)
         THEN [tier |-> "enterprise", usageLimit |-> ENTERPRISE_LIMIT]
       ELSE [tier |-> "basic", usageLimit |-> BASIC_LIMIT]

(* ------------------------------- events ------------------------------- *)

\* Statuses a customer.subscription.created/updated event carries.
EventStatuses == {"active", "past_due"}

\* A verified Stripe event, reduced to what the handler reads:
\*   type     event.type
\*   sub      subscription.id / invoice.subscription (None: absent)
\*   userId   subscription.metadata.userId (None: absent)
\*   status   subscription.status
\*   prev     event.data.previous_attributes.status (None: absent)
\*   price    subscription.items.data[0].price.id; for an invoice, the price of
\*            the subscription stripe.subscriptions.retrieve returns
\*   created  event.created
\* An event is identified by its content: a redelivery is the same record.
\* The handler never reads event.created, so the events delivered all carry
\* created = 2; Earlier(e) is the same event having occurred before them.
Event(type, sub, userId, status, prev, price, created) ==
  [type |-> type, sub |-> sub, userId |-> userId, status |-> status,
   prev |-> prev, price |-> price, created |-> created]

Earlier(e) == [e EXCEPT !.created = e.created - 1]

CreatedEvents ==
  { Event("customer.subscription.created", s, u, st, None, p, 2) :
      s \in SubIds, u \in Users, st \in EventStatuses, p \in PriceIds }

UpdatedEvents ==
  { Event("customer.subscription.updated", s, "u1", x[1], x[2], p, 2) :
      s \in SubIds, x \in EventStatuses \X (EventStatuses \cup {None}),
      p \in PriceIds }

DeletedEvents ==
  { Event("customer.subscription.deleted", s, u, "canceled", None, "price_basic", 2) :
      s \in SubIds, u \in Users \cup {None} }

InvoiceEvents ==
  { Event(ty, s, None, None, None, p, 2) :
      ty \in {"invoice.payment_succeeded"}, s \in SubIds \cup {None}, p \in PriceIds }
  \cup
  { Event("invoice.payment_failed", s, None, None, None, "price_basic", 2) :
      s \in SubIds \cup {None} }

OtherEvents ==
  { Event("charge.succeeded", None, None, None, None, "price_basic", 2),
    Event("customer.subscription.updated", "sub_1", None, "active", None, "price_basic", 2) }

Events == CreatedEvents \cup UpdatedEvents \cup DeletedEvents \cup InvoiceEvents \cup OtherEvents

(* --------------------------- store operators -------------------------- *)

NoRow == [absent |-> TRUE]

Merge(row, fields) ==
  [k \in DOMAIN row |-> IF k \in DOMAIN fields THEN fields[k] ELSE row[k]]

\* supabase.from(table).update(fields).eq(key): no row matched is no error.
UpdateWhere(table, key, fields) ==
  [k \in DOMAIN table |->
     IF k = key /\ table[k] # NoRow THEN Merge(table[k], fields) ELSE table[k]]

\* .upsert({...}, { onConflict: 'stripe_subscription_id' })
UpsertSubscription(subs, e) ==
  [subs EXCEPT ![e.sub] = [user_id |-> e.userId, status |-> e.status,
                           price_id |-> e.price, ended |-> FALSE]]

\* .update({ subscription_status: subscription.status }).eq('id', userId)
UpdateProfileStatus(profs, userId, status) ==
  UpdateWhere(profs, userId, [subscription_status |-> status])

\* A faulty reset condition, for comparison: every event with status active resets.
ShouldResetCredits_AnyActive(e) == e.status = "active"

\* The condition guarding the credit reset of a created/updated event.
ShouldResetCredits(e) ==
  /\ e.status = "active"
  /\ \/ e.type = "customer.subscription.created"
     \/ /\ e.type = "customer.subscription.updated"
        /\ e.prev # None
        /\ e.prev # "active"

\* .update({ subscription_tier, usage_credits, usage_limit }).eq('id', userId)
ResetCredits(profs, userId, t) ==
  UpdateWhere(profs, userId,
    [subscription_tier |-> t.tier, usage_credits |-> t.usageLimit,
     usage_limit |-> t.usageLimit])

\* .update({ status, ended_at }).eq('stripe_subscription_id', subscription.id)
EndSubscription(subs, e) ==
  UpdateWhere(subs, e.sub, [status |-> e.status, ended |-> TRUE])

\* .update({ subscription_status: 'canceled', subscription_tier: 'free', usage_limit: 100 })
DowngradeProfile(profs, userId) ==
  UpdateWhere(profs, userId,
    [subscription_status |-> "canceled", subscription_tier |-> "free",
     usage_limit |-> FREE_TIER_LIMIT])

\* A faulty refill, for comparison: it adds the limit to the balance instead of setting it.
RefillCredits_TopUp(profs, userId, t) ==
  UpdateWhere(profs, userId,
    [usage_credits |-> profs[userId].usage_credits + t.usageLimit,
     usage_limit |-> t.usageLimit])

\* invoice.payment_succeeded: .update({ usage_credits, usage_limit }).eq('id', userId)
RefillCredits(profs, userId, t) ==
  UpdateWhere(profs, userId,
    [usage_credits |-> t.usageLimit, usage_limit |-> t.usageLimit])

\* A faulty update, for comparison: it also empties the balance.
MarkPastDue_ZeroCredits(profs, userId) ==
  UpdateWhere(profs, userId, [subscription_status |-> "past_due", usage_credits |-> 0])

\* .update({ subscription_status: 'past_due' }).eq('id', userId)
MarkPastDue(profs, userId) ==
  UpdateWhere(profs, userId, [subscription_status |-> "past_due"])

\* A faulty check, for comparison: it rejects a spend of exactly the balance.
InsufficientCredits_OffByOne(seen, creditsUsed) == seen.usage_credits <= creditsUsed

\* The profile check of recordUsage: profile.usage_credits < creditsUsed.
InsufficientCredits(seen, creditsUsed) == seen.usage_credits < creditsUsed

\* supabase.from('usage_logs').insert({...})
InsertUsageLog(logs, userId, creditsUsed) ==
  Append(logs, [user_id |-> userId, credits_used |-> creditsUsed])

\* Trigger on_usage_log_created, in the insert's transaction:
\* UPDATE profiles SET usage_credits = usage_credits - NEW.credits_used.
update_usage_credits(profs, userId, creditsUsed) ==
  UpdateWhere(profs, userId,
    [usage_credits |-> profs[userId].usage_credits - creditsUsed])

\* A faulty balance, for comparison: the handler subtracts what the trigger
\* subtracted as well.
NewCredits_Twice(seen, creditsUsed) == seen.usage_credits - 2 * creditsUsed

\* const newCredits = profile.usage_credits - creditsUsed
NewCredits(seen, creditsUsed) == seen.usage_credits - creditsUsed

\* .update({ usage_credits: newCredits }).eq('id', userId)
UpdateCredits(profs, userId, newCredits) ==
  UpdateWhere(profs, userId, [usage_credits |-> newCredits])

(* -------------------------------- state ------------------------------- *)

VARIABLES
  profiles,       \* profiles table: id -> row
  subscriptions,  \* subscriptions table: stripe_subscription_id -> row or NoRow
  usage_logs,     \* usage_logs table, in insertion order
  req,            \* Spec: the recordUsage requests (handler position and locals)
  hook,           \* Spec: the webhook delivery (handler position and locals)
  audit,          \* history: the balance set by the last reset and the log length then
  trail           \* SpecHistory: the operations handled so far, each with its
                  \* response and the rows it found

vars == <<profiles, subscriptions, usage_logs, req, hook, audit, trail>>

\* The profile handle_new_user inserts for a new auth.users row.
handle_new_user ==
  [subscription_tier |-> "free", subscription_status |-> "active",
   usage_credits |-> NEW_USER_CREDITS, usage_limit |-> NEW_USER_CREDITS]

NoResp == [status |-> 0, creditsRemaining |-> 0]

NoEvent == [type |-> "none"]

IdleReq ==
  [pc |-> "idle", userId |-> None, creditsUsed |-> 0, seen |-> handle_new_user,
   resp |-> NoResp]

IdleHook ==
  [pc |-> "idle", signature |-> None, ev |-> NoEvent, userId |-> None, resp |-> 0]

\* The operation of a recordUsage request, as the trail records it.
SpendOp(userId, creditsUsed) ==
  [type |-> "recordUsage", userId |-> userId, creditsUsed |-> creditsUsed]

\* A trail entry: the operation, its response, and the rows it found.
Entry(op, status, creditsRemaining, profs, subs, logs) ==
  [op |-> op, status |-> status, creditsRemaining |-> creditsRemaining,
   profiles |-> profs, subscriptions |-> subs, usage_logs |-> logs]

(* ------------------------- handlers, run whole ------------------------ *)

\* refill: <<the limit credits were reset to>>, or NoRefill.
NoRefill == <<>>

Reply(profs, subs, status, refill) ==
  [profiles |-> profs, subscriptions |-> subs, status |-> status, refill |-> refill]

\* case 'customer.subscription.created' / 'customer.subscription.updated'
OnSubscriptionChange(profs, subs, e) ==
  IF e.userId = None THEN Reply(profs, subs, 400, NoRefill)
  ELSE LET s1 == UpsertSubscription(subs, e)
           p1 == UpdateProfileStatus(profs, e.userId, e.status)
           t  == TierForPrice(e.price)
       IN IF ShouldResetCredits(e)
            THEN Reply(ResetCredits(p1, e.userId, t), s1, 200, <<t.usageLimit>>)
            ELSE Reply(p1, s1, 200, NoRefill)

\* case 'customer.subscription.deleted'
OnSubscriptionDeleted(profs, subs, e) ==
  IF e.userId = None THEN Reply(profs, subs, 400, NoRefill)
  ELSE Reply(DowngradeProfile(profs, e.userId), EndSubscription(subs, e), 200, NoRefill)

\* case 'invoice.payment_succeeded'
OnInvoicePaid(profs, subs, e) ==
  IF e.sub = None THEN Reply(profs, subs, 400, NoRefill)
  ELSE IF subs[e.sub] = NoRow THEN Reply(profs, subs, 500, NoRefill)
  ELSE LET t == TierForPrice(e.price)
       IN Reply(RefillCredits(profs, subs[e.sub].user_id, t), subs, 200, <<t.usageLimit>>)

\* case 'invoice.payment_failed'
OnInvoiceFailed(profs, subs, e) ==
  IF e.sub = None THEN Reply(profs, subs, 400, NoRefill)
  ELSE IF subs[e.sub] = NoRow THEN Reply(profs, subs, 500, NoRefill)
  ELSE Reply(MarkPastDue(profs, subs[e.sub].user_id), subs, 200, NoRefill)

\* switch (event.type) of the webhook action, after signature verification.
HandleEvent(profs, subs, e) ==
  CASE e.type \in {"customer.subscription.created", "customer.subscription.updated"} ->
         OnSubscriptionChange(profs, subs, e)
    [] e.type = "customer.subscription.deleted" -> OnSubscriptionDeleted(profs, subs, e)
    [] e.type = "invoice.payment_succeeded" -> OnInvoicePaid(profs, subs, e)
    [] e.type = "invoice.payment_failed" -> OnInvoiceFailed(profs, subs, e)
    [] OTHER -> Reply(profs, subs, 200, NoRefill)

\* case 'recordUsage' of the usage action, run without interruption.
RecordUsage(profs, logs, userId, creditsUsed) ==
  LET seen == profs[userId] IN
  IF InsufficientCredits(seen, creditsUsed)
    THEN [profiles |-> profs, usage_logs |-> logs, status |-> 403,
          creditsRemaining |-> seen.usage_credits]
    ELSE LET logged == update_usage_credits(profs, userId, creditsUsed)
             newCredits == NewCredits(seen, creditsUsed)
         IN [profiles |-> UpdateCredits(logged, userId, newCredits),
             usage_logs |-> InsertUsageLog(logs, userId, creditsUsed),
             status |-> 200, creditsRemaining |-> newCredits]

\* The account starts either as handle_new_user left it, or as the webhook
\* leaves a new account after customer.subscription.created (active, premium).
NewAccount ==
  Reply([u \in Users |-> handle_new_user], [s \in SubIds |-> NoRow], 0, NoRefill)

Subscribed ==
  HandleEvent(NewAccount.profiles, NewAccount.subscriptions,
              Event("customer.subscription.created", "sub_1", "u1", "active", None,
                    "price_premium", 2))

Init ==
  /\ \E start \in {NewAccount, Subscribed} :
       /\ profiles = start.profiles
       /\ subscriptions = start.subscriptions
       /\ audit = [base |-> start.profiles["u1"].usage_credits, mark |-> 0]
  /\ usage_logs = <<>>
  /\ req = [r \in Reqs |-> IdleReq]
  /\ hook = IdleHook
  /\ trail = <<>>

\* One webhook delivery, handled to completion.
Handle(e) ==
  LET r == HandleEvent(profiles, subscriptions, e) IN
  /\ profiles' = r.profiles
  /\ subscriptions' = r.subscriptions
  /\ audit' = IF r.refill = NoRefill THEN audit
              ELSE [base |-> r.refill[1], mark |-> Len(usage_logs)]
  /\ UNCHANGED <<usage_logs, req, hook>>

\* One recordUsage request, handled to completion.
Record(u, n) ==
  LET r == RecordUsage(profiles, usage_logs, u, n) IN
  /\ Len(usage_logs) < MaxSpends
  /\ profiles' = r.profiles
  /\ usage_logs' = r.usage_logs
  /\ UNCHANGED <<subscriptions, req, hook, audit>>

Deliver(e) == Handle(e) /\ UNCHANGED trail

Spend(u, n) == Record(u, n) /\ UNCHANGED trail

NextSerial ==
  \/ \E e \in Events : Deliver(e)
  \/ \E u \in Users, n \in CreditsUsedInputs : Spend(u, n)

SpecSerial == Init /\ [][NextSerial]_vars

\* SpecHistory: as SpecSerial, for MaxOps operations, each recorded in trail.
DeliverRecorded(e) ==
  /\ Len(trail) < MaxOps
  /\ Handle(e)
  /\ trail' = Append(trail,
       Entry(e, HandleEvent(profiles, subscriptions, e).status, 0,
             profiles, subscriptions, usage_logs))

SpendRecorded(u, n) ==
  /\ Len(trail) < MaxOps
  /\ Record(u, n)
  /\ LET r == RecordUsage(profiles, usage_logs, u, n) IN
     trail' = Append(trail,
       Entry(SpendOp(u, n), r.status, r.creditsRemaining,
             profiles, subscriptions, usage_logs))

\* Deliveries of SpecHistory: the events, and the updated events as they would
\* arrive had they occurred earlier.
Deliveries == Events \cup {Earlier(e) : e \in UpdatedEvents}

NextHistory ==
  \/ \E e \in Deliveries : DeliverRecorded(e)
  \/ \E u \in Users, n \in CreditsUsedInputs : SpendRecorded(u, n)

SpecHistory == Init /\ [][NextHistory]_vars

(* ---------------- handlers, one store call per step ------------------- *)

\* recordUsage: select('usage_credits, usage_limit, subscription_status').single(),
\* then the credits check on the row read.
\* (Request slots are interchangeable: they are taken in order.)
ReadProfile(r, u, n) ==
  /\ req[r].pc = "idle"
  /\ \A q \in Reqs : q < r => req[q].pc # "idle"
  /\ LET seen == profiles[u] IN
     req' = [req EXCEPT ![r] =
       IF InsufficientCredits(seen, n)
         THEN [pc |-> "done", userId |-> u, creditsUsed |-> n, seen |-> seen,
               resp |-> [status |-> 403, creditsRemaining |-> seen.usage_credits]]
         ELSE [pc |-> "insert", userId |-> u, creditsUsed |-> n, seen |-> seen,
               resp |-> NoResp]]
  /\ UNCHANGED <<profiles, subscriptions, usage_logs, hook, audit, trail>>

\* recordUsage: the usage_logs insert; its AFTER INSERT trigger runs with it.
LogUsage(r) ==
  /\ req[r].pc = "insert"
  /\ usage_logs' = InsertUsageLog(usage_logs, req[r].userId, req[r].creditsUsed)
  /\ profiles' = update_usage_credits(profiles, req[r].userId, req[r].creditsUsed)
  /\ req' = [req EXCEPT ![r].pc = "update"]
  /\ UNCHANGED <<subscriptions, hook, audit, trail>>

\* recordUsage: the profiles update with the balance computed from the row read.
WriteCredits(r) ==
  /\ req[r].pc = "update"
  /\ LET newCredits == NewCredits(req[r].seen, req[r].creditsUsed) IN
     /\ profiles' = UpdateCredits(profiles, req[r].userId, newCredits)
     /\ req' = [req EXCEPT ![r].pc = "done",
                           ![r].resp = [status |-> 200, creditsRemaining |-> newCredits]]
  /\ UNCHANGED <<subscriptions, usage_logs, hook, audit, trail>>

Respond(status) == [hook EXCEPT !.pc = "done", !.resp = status]

\* A faulty default branch, for comparison: an unhandled type is an error.
Unhandled_AsError(h) == [h EXCEPT !.pc = "done", !.resp = 400]

\* default: of the switch, then the { received: true } response.
Unhandled(h) == [h EXCEPT !.pc = "done", !.resp = 200]

\* The stripe-signature header of a request: absent, failing constructEvent, or valid.
Signatures == {"missing", "invalid", "valid"}

\* A faulty prologue, for comparison: a failed verification is answered as a
\* server error.
VerifyRequest_ServerError(signature, hasSecrets) ==
  IF signature = "missing" THEN 400
  ELSE IF ~hasSecrets THEN 400
  ELSE IF signature = "invalid" THEN 500
  ELSE 0

\* The webhook action before the switch: the status it returns, or 0 when the
\* event is verified and handled.
VerifyRequest(signature, hasSecrets) ==
  IF signature = "missing" THEN 400
  ELSE IF ~hasSecrets THEN 400
  ELSE IF signature = "invalid" THEN 400
  ELSE 0

\* A request the action answers before the switch; no store call is made.
Reject(signature, hasSecrets) ==
  /\ hook.pc = "idle"
  /\ VerifyRequest(signature, hasSecrets) # 0
  /\ hook' = [hook EXCEPT !.pc = "done", !.signature = signature,
                          !.resp = VerifyRequest(signature, hasSecrets)]
  /\ UNCHANGED <<profiles, subscriptions, usage_logs, req, audit, trail>>

\* The webhook action up to and including its first store call.
Receive(e) ==
  /\ hook.pc = "idle"
  /\ VerifyRequest("valid", TRUE) = 0
  /\ LET h == [hook EXCEPT !.ev = e, !.signature = "valid"] IN
     CASE e.type \in {"customer.subscription.created", "customer.subscription.updated"} ->
            IF e.userId = None
              THEN hook' = [h EXCEPT !.pc = "done", !.resp = 400]
                   /\ UNCHANGED subscriptions
              ELSE hook' = [h EXCEPT !.pc = "status", !.userId = e.userId]
                   /\ subscriptions' = UpsertSubscription(subscriptions, e)
       [] e.type = "customer.subscription.deleted" ->
            IF e.userId = None
              THEN hook' = [h EXCEPT !.pc = "done", !.resp = 400]
                   /\ UNCHANGED subscriptions
              ELSE hook' = [h EXCEPT !.pc = "downgrade", !.userId = e.userId]
                   /\ subscriptions' = EndSubscription(subscriptions, e)
       [] e.type \in {"invoice.payment_succeeded", "invoice.payment_failed"} ->
            /\ UNCHANGED subscriptions
            /\ hook' =
                 IF e.sub = None THEN [h EXCEPT !.pc = "done", !.resp = 400]
                 ELSE IF subscriptions[e.sub] = NoRow
                   THEN [h EXCEPT !.pc = "done", !.resp = 500]
                 ELSE [h EXCEPT !.userId = subscriptions[e.sub].user_id,
                                !.pc = IF e.type = "invoice.payment_succeeded"
                                         THEN "refill" ELSE "past_due"]
       [] OTHER -> hook' = Unhandled(h)
                   /\ UNCHANGED subscriptions
  /\ UNCHANGED <<profiles, usage_logs, req, audit, trail>>

\* created/updated: the profiles update of subscription_status.
WriteStatus ==
  /\ hook.pc = "status"
  /\ profiles' = UpdateProfileStatus(profiles, hook.userId, hook.ev.status)
  /\ hook' = IF ShouldResetCredits(hook.ev) THEN [hook EXCEPT !.pc = "reset"]
             ELSE Respond(200)
  /\ UNCHANGED <<subscriptions, usage_logs, req, audit, trail>>

\* created/updated: the tier and credit reset.
WriteReset ==
  /\ hook.pc = "reset"
  /\ LET t == TierForPrice(hook.ev.price) IN
     /\ profiles' = ResetCredits(profiles, hook.userId, t)
     /\ audit' = [base |-> t.usageLimit, mark |-> Len(usage_logs)]
  /\ hook' = Respond(200)
  /\ UNCHANGED <<subscriptions, usage_logs, req, trail>>

\* deleted: the profiles update.
WriteDowngrade ==
  /\ hook.pc = "downgrade"
  /\ profiles' = DowngradeProfile(profiles, hook.userId)
  /\ hook' = Respond(200)
  /\ UNCHANGED <<subscriptions, usage_logs, req, audit, trail>>

\* invoice.payment_succeeded: the credit reset for the new billing period.
WriteRefill ==
  /\ hook.pc = "refill"
  /\ LET t == TierForPrice(hook.ev.price) IN
     /\ profiles' = RefillCredits(profiles, hook.userId, t)
     /\ audit' = [base |-> t.usageLimit, mark |-> Len(usage_logs)]
  /\ hook' = Respond(200)
  /\ UNCHANGED <<subscriptions, usage_logs, req, trail>>

\* invoice.payment_failed: the profiles update.
WritePastDue ==
  /\ hook.pc = "past_due"
  /\ profiles' = MarkPastDue(profiles, hook.userId)
  /\ hook' = Respond(200)
  /\ UNCHANGED <<subscriptions, usage_logs, req, audit, trail>>

Next ==
  \/ \E r \in Reqs, u \in Users, n \in CreditsUsedInputs : ReadProfile(r, u, n)
  \/ \E r \in Reqs : LogUsage(r)
  \/ \E r \in Reqs : WriteCredits(r)
  \/ \E signature \in Signatures, hasSecrets \in BOOLEAN : Reject(signature, hasSecrets)
  \/ \E e \in Events : Receive(e)
  \/ WriteStatus
  \/ WriteReset
  \/ WriteDowngrade
  \/ WriteRefill
  \/ WritePastDue

Spec == Init /\ [][Next]_vars

(* ------------------- the usage gate, step by step --------------------- *)

\* creditsRequired values of checkAndRecordUsage calls.
GateInputs == {n \in CreditsUsedInputs : n > 0}

\* UsageTracker.hasEnoughCredits on the profile getUserUsage returned.
hasEnoughCredits(profile, creditsNeeded) == profile.usage_credits >= creditsNeeded

\* What checkAndRecordUsage returns.
GateDenied(error) == [allowed |-> FALSE, error |-> error]

GateAllowed == [allowed |-> TRUE]

\* checkAndRecordUsage has not returned yet.
GatePending == [pending |-> TRUE]

\* checkAndRecordUsage up to the return of hasEnoughCredits: getUserUsage reads
\* the profile; without enough credits the gate returns at once.
GateCheck(r, u, n) ==
  /\ req[r].pc = "idle"
  /\ \A q \in Reqs : q < r => req[q].pc # "idle"
  /\ req' = [req EXCEPT ![r] =
       [pc |-> IF hasEnoughCredits(profiles[u], n) THEN "gated" ELSE "returned",
        userId |-> u, creditsUsed |-> n, checked |-> profiles[u].usage_credits,
        seen |-> profiles[u], resp |-> NoResp,
        result |-> IF hasEnoughCredits(profiles[u], n) THEN GatePending
                   ELSE GateDenied("Insufficient credits")]]
  /\ UNCHANGED <<profiles, subscriptions, usage_logs, hook, audit, trail>>

\* tracker.recordUsage posts to the recordUsage handler, which reads the profile
\* and checks the credits on the row read.
GateReadProfile(r) ==
  /\ req[r].pc = "gated"
  /\ LET seen == profiles[req[r].userId] IN
     req' = [req EXCEPT ![r].seen = seen,
                        ![r].pc = IF InsufficientCredits(seen, req[r].creditsUsed)
                                    THEN "done" ELSE "insert",
                        ![r].resp = IF InsufficientCredits(seen, req[r].creditsUsed)
                                      THEN [status |-> 403,
                                            creditsRemaining |-> seen.usage_credits]
                                      ELSE NoResp]
  /\ UNCHANGED <<profiles, subscriptions, usage_logs, hook, audit, trail>>

\* The handler has answered: tracker.recordUsage maps the response to success or
\* error, and checkAndRecordUsage returns.
GateReturn(r) ==
  /\ req[r].pc = "done"
  /\ req' = [req EXCEPT ![r].pc = "returned",
                        ![r].result = IF req[r].resp.status = 200 THEN GateAllowed
                                      ELSE GateDenied("Insufficient credits")]
  /\ UNCHANGED <<profiles, subscriptions, usage_logs, hook, audit, trail>>

NextGate ==
  \/ \E r \in Reqs, u \in Users, n \in GateInputs : GateCheck(r, u, n)
  \/ \E r \in Reqs : GateReadProfile(r)
  \/ \E r \in Reqs : LogUsage(r)
  \/ \E r \in Reqs : WriteCredits(r)
  \/ \E r \in Reqs : GateReturn(r)

SpecGate == Init /\ [][NextGate]_vars

(* ----------------------- store calls that fail ------------------------ *)

\* recordUsage: the usage_logs insert returns an error; nothing is written.
LogUsageFails(r) ==
  /\ req[r].pc = "insert"
  /\ req' = [req EXCEPT ![r].pc = "done",
                        ![r].resp = [status |-> 500, creditsRemaining |-> 0]]
  /\ UNCHANGED <<profiles, subscriptions, usage_logs, hook, audit, trail>>

\* recordUsage: the profiles update returns an error; the row inserted before
\* it, and the trigger's decrement, stay.
WriteCreditsFails(r) ==
  /\ req[r].pc = "update"
  /\ req' = [req EXCEPT ![r].pc = "done",
                        ![r].resp = [status |-> 500, creditsRemaining |-> 0]]
  /\ UNCHANGED <<profiles, subscriptions, usage_logs, hook, audit, trail>>

\* The webhook action: the first store call of a created, updated or deleted
\* event returns an error; nothing is written.
ReceiveFails(e) ==
  /\ hook.pc = "idle"
  /\ VerifyRequest("valid", TRUE) = 0
  /\ e.type \in {"customer.subscription.created", "customer.subscription.updated",
                 "customer.subscription.deleted"}
  /\ e.userId # None
  /\ hook' = [hook EXCEPT !.pc = "done", !.signature = "valid", !.ev = e,
                          !.userId = e.userId, !.resp = 500]
  /\ UNCHANGED <<profiles, subscriptions, usage_logs, req, audit, trail>>

\* The webhook action: a profiles update after the first store call returns an
\* error; what was written before it stays.
HookWriteFails ==
  /\ hook.pc \in {"status", "reset", "downgrade", "refill", "past_due"}
  /\ hook' = Respond(500)
  /\ UNCHANGED <<profiles, subscriptions, usage_logs, req, audit, trail>>

NextFaults ==
  \/ \E r \in Reqs, u \in Users, n \in GateInputs : ReadProfile(r, u, n)
  \/ \E r \in Reqs : LogUsage(r)
  \/ \E r \in Reqs : LogUsageFails(r)
  \/ \E r \in Reqs : WriteCredits(r)
  \/ \E r \in Reqs : WriteCreditsFails(r)
  \/ \E e \in Events : Receive(e)
  \/ \E e \in Events : ReceiveFails(e)
  \/ WriteStatus
  \/ WriteReset
  \/ WriteDowngrade
  \/ WriteRefill
  \/ WritePastDue
  \/ HookWriteFails

SpecFaults == Init /\ [][NextFaults]_vars

(* ------------------- two deliveries at the same time ------------------ *)

\* Two requests to the webhook action run at once; here hook holds one record
\* per request, and audit keeps the balance the run began with.
Hooks == {1, 2}

RaceEvents == { e \in CreatedEvents \cup UpdatedEvents \cup DeletedEvents : e.userId # None }

InitRace ==
  /\ \E start \in {NewAccount, Subscribed} :
       /\ profiles = start.profiles
       /\ subscriptions = start.subscriptions
       /\ audit = [base |-> start.profiles["u1"].usage_credits, mark |-> 0]
  /\ usage_logs = <<>>
  /\ req = [r \in Reqs |-> IdleReq]
  /\ hook = [d \in Hooks |-> IdleHook]
  /\ trail = <<>>

\* Request d up to and including its first store call; the two requests carry
\* different events.
RaceReceive(d, e) ==
  /\ hook[d].pc = "idle"
  /\ d = 1 \/ hook[1].pc # "idle"
  /\ \A o \in Hooks : hook[o].ev # e
  /\ VerifyRequest("valid", TRUE) = 0
  /\ IF e.type = "customer.subscription.deleted"
       THEN /\ subscriptions' = EndSubscription(subscriptions, e)
            /\ hook' = [hook EXCEPT ![d] = [@ EXCEPT !.pc = "downgrade", !.ev = e,
                                              !.signature = "valid", !.userId = e.userId]]
       ELSE /\ subscriptions' = UpsertSubscription(subscriptions, e)
            /\ hook' = [hook EXCEPT ![d] = [@ EXCEPT !.pc = "status", !.ev = e,
                                              !.signature = "valid", !.userId = e.userId]]
  /\ UNCHANGED <<profiles, usage_logs, req, audit, trail>>

RaceWriteStatus(d) ==
  /\ hook[d].pc = "status"
  /\ profiles' = UpdateProfileStatus(profiles, hook[d].userId, hook[d].ev.status)
  /\ hook' = IF ShouldResetCredits(hook[d].ev)
               THEN [hook EXCEPT ![d].pc = "reset"]
               ELSE [hook EXCEPT ![d].pc = "done", ![d].resp = 200]
  /\ UNCHANGED <<subscriptions, usage_logs, req, audit, trail>>

RaceWriteReset(d) ==
  /\ hook[d].pc = "reset"
  /\ profiles' = ResetCredits(profiles, hook[d].userId, TierForPrice(hook[d].ev.price))
  /\ hook' = [hook EXCEPT ![d].pc = "done", ![d].resp = 200]
  /\ UNCHANGED <<subscriptions, usage_logs, req, audit, trail>>

RaceWriteDowngrade(d) ==
  /\ hook[d].pc = "downgrade"
  /\ profiles' = DowngradeProfile(profiles, hook[d].userId)
  /\ hook' = [hook EXCEPT ![d].pc = "done", ![d].resp = 200]
  /\ UNCHANGED <<subscriptions, usage_logs, req, audit, trail>>

NextRace ==
  \/ \E d \in Hooks, e \in RaceEvents : RaceReceive(d, e)
  \/ \E d \in Hooks : RaceWriteStatus(d)
  \/ \E d \in Hooks : RaceWriteReset(d)
  \/ \E d \in Hooks : RaceWriteDowngrade(d)

SpecRace == InitRace /\ [][NextRace]_vars

\* The state the run began in.
Started ==
  CHOOSE start \in {NewAccount, Subscribed} :
    start.profiles["u1"].usage_credits = audit.base

\* The rows after the handler has run for a and then for b, each whole.
InOrder(start, a, b) ==
  LET first == HandleEvent(start.profiles, start.subscriptions, a)
      second == HandleEvent(first.profiles, first.subscriptions, b)
  IN [profiles |-> second.profiles, subscriptions |-> second.subscriptions]

(* --------------------------- createSubscription ---------------------- *)

\* A faulty resolution, for comparison: 'enterprise' is tested before 'premium'.
CreateSubscriptionTier_EnterpriseFirst(name) ==
  LET tier == IF name = None THEN "basic"
              ELSE IF includes(toLowerCase(name), enterprise) THEN "enterprise"
              ELSE IF includes(toLowerCase(name), premium) THEN "premium"
              ELSE "basic"
      usageLimit == IF tier = "premium" THEN PREMIUM_LIMIT
                    ELSE IF tier = "enterprise" THEN ENTERPRISE_LIMIT
                    ELSE BASIC_LIMIT
  IN [tier |-> tier, usageLimit |-> usageLimit]

\* The tier resolution of createSubscription: the tier from the product name,
\* then the limit from the tier.
CreateSubscriptionTier(name) ==
  LET tier == IF name = None THEN "basic"
              ELSE IF includes(toLowerCase(name), premium) THEN "premium"
              ELSE IF includes(toLowerCase(name), enterprise) THEN "enterprise"
              ELSE "basic"
      usageLimit == IF tier = "premium" THEN PREMIUM_LIMIT
                    ELSE IF tier = "enterprise" THEN ENTERPRISE_LIMIT
                    ELSE BASIC_LIMIT
  IN [tier |-> tier, usageLimit |-> usageLimit]

\* In this part the subscriptions table is a sequence of rows, each with its
\* stripe_subscription_id, and trail lists the subscriptions Stripe has created.
StripeIds == <<"sub_1", "sub_2">>

CallStatuses == {"incomplete", "active"}

SubscriptionRow(id, userId, status, priceId) ==
  [stripe_subscription_id |-> id, user_id |-> userId, status |-> status,
   price_id |-> priceId, ended |-> FALSE]

RowsOf(rows, id) == {i \in 1..Len(rows) : rows[i].stripe_subscription_id = id}

\* The unique constraint on subscriptions.stripe_subscription_id.
Conflicts(rows, id) == RowsOf(rows, id) # {}

\* supabase.from('subscriptions').insert(row)
InsertRow(rows, row) ==
  IF Conflicts(rows, row.stripe_subscription_id)
    THEN [rows |-> rows, error |-> TRUE]
    ELSE [rows |-> Append(rows, row), error |-> FALSE]

\* A faulty upsert, for comparison: a plain insert.
UpsertRow_AsInsert(rows, row) == InsertRow(rows, row)

\* .upsert(row, { onConflict: 'stripe_subscription_id' })
UpsertRow(rows, row) ==
  IF Conflicts(rows, row.stripe_subscription_id)
    THEN [rows |-> [i \in 1..Len(rows) |->
                     IF rows[i].stripe_subscription_id = row.stripe_subscription_id
                       THEN row ELSE rows[i]],
          error |-> FALSE]
    ELSE [rows |-> Append(rows, row), error |-> FALSE]

\* .update({ status: 'canceled', ended_at }).eq('stripe_subscription_id', id)
EndRows(rows, id) ==
  [i \in 1..Len(rows) |->
     IF rows[i].stripe_subscription_id = id
       THEN [rows[i] EXCEPT !.status = "canceled", !.ended = TRUE] ELSE rows[i]]

IdleCall ==
  [pc |-> "idle", userId |-> None, sub |-> None, price |-> None, status |-> None,
   resp |-> 0]

InitSubscribe ==
  /\ profiles = NewAccount.profiles
  /\ subscriptions = <<>>
  /\ usage_logs = <<>>
  /\ req = [r \in Reqs |-> IdleCall]
  /\ hook = IdleHook
  /\ audit = [base |-> NEW_USER_CREDITS, mark |-> 0]
  /\ trail = <<>>

\* createSubscription up to stripe.subscriptions.create, which returns a
\* subscription with an id Stripe has not used before.
CreateInStripe(r, u, p, st) ==
  /\ req[r].pc = "idle"
  /\ \A q \in Reqs : q < r => req[q].pc # "idle"
  /\ Len(trail) < Len(StripeIds)
  /\ LET id == StripeIds[Len(trail) + 1] IN
     /\ trail' = Append(trail, [sub |-> id, userId |-> u, price |-> p])
     /\ req' = [req EXCEPT ![r] = [pc |-> "insert", userId |-> u, sub |-> id,
                                   price |-> p, status |-> st, resp |-> 0]]
  /\ UNCHANGED <<profiles, subscriptions, usage_logs, hook, audit>>

\* createSubscription from the subscriptions insert to the response.
StoreSubscription(r) ==
  /\ req[r].pc = "insert"
  /\ LET c == req[r]
         res == InsertRow(subscriptions, SubscriptionRow(c.sub, c.userId, c.status, c.price))
         t == CreateSubscriptionTier(ProductName(c.price))
     IN IF res.error
          THEN /\ req' = [req EXCEPT ![r].pc = "done", ![r].resp = 500]
               /\ UNCHANGED <<profiles, subscriptions>>
          ELSE /\ subscriptions' = res.rows
               /\ profiles' = UpdateWhere(profiles, c.userId,
                                 [subscription_status |-> c.status,
                                  subscription_tier |-> t.tier,
                                  usage_limit |-> t.usageLimit])
               /\ req' = [req EXCEPT ![r].pc = "done", ![r].resp = 200]
  /\ UNCHANGED <<usage_logs, hook, audit, trail>>

\* The events Stripe can send for the subscriptions createSubscription asks for.
StripeEvents ==
  { Event(ty, StripeIds[i], u, st, None, p, 2) :
      ty \in {"customer.subscription.created", "customer.subscription.updated"},
      i \in 1..Len(StripeIds), u \in Users, st \in EventStatuses, p \in PriceIds }
  \cup
  { Event("customer.subscription.deleted", StripeIds[i], u, "canceled", None, p, 2) :
      i \in 1..Len(StripeIds), u \in Users, p \in PriceIds }

\* Stripe has created the subscription event e is about.
Created(e) ==
  \E i \in 1..Len(trail) :
    trail[i] = [sub |-> e.sub, userId |-> e.userId, price |-> e.price]

\* The webhook action for one of these events, run whole.
DeliverToRows(e) ==
  /\ Created(e)
  /\ LET after == HandleEvent(profiles, NewAccount.subscriptions, e).profiles
         done == [IdleHook EXCEPT !.pc = "done", !.signature = "valid", !.ev = e,
                                  !.userId = e.userId]
     IN IF e.type = "customer.subscription.deleted"
          THEN /\ subscriptions' = EndRows(subscriptions, e.sub)
               /\ profiles' = after
               /\ hook' = [done EXCEPT !.resp = 200]
          ELSE LET res == UpsertRow(subscriptions,
                            SubscriptionRow(e.sub, e.userId, e.status, e.price))
               IN IF res.error
                    THEN /\ hook' = [done EXCEPT !.resp = 500]
                         /\ UNCHANGED <<profiles, subscriptions>>
                    ELSE /\ subscriptions' = res.rows
                         /\ profiles' = after
                         /\ hook' = [done EXCEPT !.resp = 200]
  /\ UNCHANGED <<usage_logs, req, audit, trail>>

NextSubscribe ==
  \/ \E r \in Reqs, u \in Users, p \in PriceIds, st \in CallStatuses :
       CreateInStripe(r, u, p, st)
  \/ \E r \in Reqs : StoreSubscription(r)
  \/ \E e \in StripeEvents : DeliverToRows(e)

SpecSubscribe == InitSubscribe /\ [][NextSubscribe]_vars

(* ---------------------------- tier resolution ------------------------ *)

\* Product names: one to three of these words.
Words ==
  { premium, enterprise, <<"P","r","e","m","i","u","m">>,
    <<"E","N","T","E","R","P","R","I","S","E">>, <<"B","a","s","i","c">>, <<" ">> }

ProductNames ==
  Words \cup { w[1] \o w[2] : w \in Words \X Words }
        \cup { w[1] \o w[2] \o w[3] : w \in Words \X Words \X Words }

InitTiers ==
  /\ profiles = NewAccount.profiles
  /\ subscriptions = NewAccount.subscriptions
  /\ usage_logs = <<>>
  /\ req = [r \in Reqs |-> IdleReq]
  /\ hook = IdleHook
  /\ audit = [base |-> NEW_USER_CREDITS, mark |-> 0]
  /\ trail = <<>>

\* Each of the three handlers resolves the product name; trail keeps the name
\* and the three results.
ResolveTier(name) ==
  /\ trail' = << [name |-> name,
                  subscription |-> TierForName(name),
                  invoice |-> InvoiceTierForName(name),
                  createSubscription |-> CreateSubscriptionTier(name)] >>
  /\ UNCHANGED <<profiles, subscriptions, usage_logs, req, hook, audit>>

NextTiers ==
  \/ \E name \in ProductNames : ResolveTier(name)
  \/ ResolveTier(None)

SpecTiers == InitTiers /\ [][NextTiers]_vars

(* --------------------------- account creation ------------------------- *)

\* A faulty insert, for comparison: it replaces the row that is there.
InsertProfile_Replace(profs, id, row) == [profs EXCEPT ![id] = row]

\* .insert(row) into profiles (id is the primary key): a duplicate id is an
\* error and nothing is written.
InsertProfile(profs, id, row) ==
  IF profs[id] = NoRow THEN [profs EXCEPT ![id] = row] ELSE profs

\* The row the signUp action inserts; subscription_status takes the column default.
SignUpProfile ==
  [subscription_tier |-> "free", subscription_status |-> "active",
   usage_credits |-> SIGNUP_CREDITS, usage_limit |-> SIGNUP_CREDITS]

\* on_auth_user_created: AFTER INSERT ON auth.users, handle_new_user inserts the profile.
on_auth_user_created(profs, id) == InsertProfile(profs, id, handle_new_user)

\* No account exists yet.
InitSignup ==
  /\ profiles = [u \in Users |-> NoRow]
  /\ subscriptions = [s \in SubIds |-> NoRow]
  /\ usage_logs = <<>>
  /\ req = [r \in Reqs |-> IdleReq]
  /\ hook = IdleHook
  /\ audit = [base |-> NEW_USER_CREDITS, mark |-> 0]
  /\ trail = <<>>

\* An auth.users row inserted other than through the signUp action.
AuthUserCreated(u) ==
  /\ profiles[u] = NoRow
  /\ profiles' = on_auth_user_created(profiles, u)
  /\ UNCHANGED <<subscriptions, usage_logs, req, hook, audit, trail>>

\* signUp: supabase.auth.signUp. A new email gets its auth.users row, and with it
\* the trigger's profile; a registered one is answered with the error.
SignUp(r, u) ==
  /\ req[r].pc = "idle"
  /\ \A q \in Reqs : q < r => req[q].pc # "idle"
  /\ IF profiles[u] = NoRow
       THEN /\ profiles' = on_auth_user_created(profiles, u)
            /\ req' = [req EXCEPT ![r].pc = "profile", ![r].userId = u]
       ELSE /\ UNCHANGED profiles
            /\ req' = [req EXCEPT ![r].pc = "done", ![r].userId = u,
                                  ![r].resp = [status |-> 400, creditsRemaining |-> 0]]
  /\ UNCHANGED <<subscriptions, usage_logs, hook, audit, trail>>

\* signUp: the profiles insert, whose error is logged and ignored, and the response.
SignUpInsert(r) ==
  /\ req[r].pc = "profile"
  /\ profiles' = InsertProfile(profiles, req[r].userId, SignUpProfile)
  /\ req' = [req EXCEPT ![r].pc = "done",
                        ![r].resp = [status |-> 200, creditsRemaining |-> 0]]
  /\ UNCHANGED <<subscriptions, usage_logs, hook, audit, trail>>

\* A recordUsage request of an account that exists.
SpendExisting(u, n) == profiles[u] # NoRow /\ Spend(u, n)

NextSignup ==
  \/ \E u \in Users : AuthUserCreated(u)
  \/ \E r \in Reqs, u \in Users : SignUp(r, u)
  \/ \E r \in Reqs : SignUpInsert(r)
  \/ \E u \in Users, n \in CreditsUsedInputs : SpendExisting(u, n)

SpecSignup == InitSignup /\ [][NextSignup]_vars

(* ------------------------------ properties ---------------------------- *)

\* No handler is between two of its store calls.
Quiescent ==
  /\ \A r \in Reqs : req[r].pc \in {"idle", "done"}
  /\ hook.pc \in {"idle", "done"}

Accepted == {r \in Reqs : req[r].pc = "done" /\ req[r].resp.status = 200}

Rejected == {r \in Reqs : req[r].pc = "done" /\ req[r].resp.status = 403}

\* The rows operation i of the trail found, and the rows it left.
Before(i) == [profiles |-> trail[i].profiles, subscriptions |-> trail[i].subscriptions]

After(i) ==
  IF i < Len(trail) THEN Before(i + 1)
  ELSE [profiles |-> profiles, subscriptions |-> subscriptions]

IsEvent(op) == op.type # "recordUsage"

RECURSIVE CreditsLogged(_, _)
\* Sum of credits_used over the usage_logs rows after the first `mark` rows.
CreditsLogged(logs, mark) ==
  IF Len(logs) <= mark THEN 0
  ELSE logs[Len(logs)].credits_used + CreditsLogged(SubSeq(logs, 1, Len(logs) - 1), mark)

\* C1: MaxSpends concurrent spends, each of floor(limit / MaxSpends) + 1 credits, on
\* a new account that nothing else touches: once all have answered, exactly one
\* was accepted and the others were rejected for insufficient credits.
C1_ExactlyOneSpendAccepted ==
  ( /\ hook.pc = "idle"
    /\ audit.base = NEW_USER_CREDITS
    /\ \A r \in Reqs : req[r].pc = "done" /\ req[r].creditsUsed = FairShare )
  => /\ Cardinality(Accepted) = 1
     /\ Cardinality(Rejected) = MaxSpends - 1

\* C2: usage_credits is never negative, in any state of any interleaving of spends,
\* the states between a handler's store calls included.
C2_CreditsNeverNegative ==
  \A u \in Users : profiles[u].usage_credits >= 0

\* C3: applying a billing event a second time, directly after the first, leaves
\* the account row and the subscription record as the first application left them.
C3_EventTwiceEqualsOnce ==
  \A e \in Events :
    LET once == HandleEvent(profiles, subscriptions, e)
        twice == HandleEvent(once.profiles, once.subscriptions, e)
    IN /\ twice.profiles = once.profiles
       /\ twice.subscriptions = once.subscriptions

\* A state an invoice.payment_succeeded event (enterprise price) has produced, in
\* which its redelivery is handled again with success.
C3_Witness ==
  \E e \in InvoiceEvents :
    /\ e.type = "invoice.payment_succeeded" /\ e.price = "price_enterprise"
    /\ HandleEvent(profiles, subscriptions, e).status = 200
    /\ profiles["u1"].usage_credits = ENTERPRISE_LIMIT
    /\ profiles["u1"].subscription_tier # "enterprise"

\* C4: an event that was acknowledged and is delivered again after any number of
\* accepted spends is acknowledged and changes neither the account row nor the
\* subscription record (a replayed reset does not refill the credits).
C4_RedeliveryChangesNothing ==
  \A i \in 1..Len(trail), j \in 1..Len(trail) :
    ( /\ i < j
      /\ IsEvent(trail[i].op) /\ trail[i].status = 200
      /\ \A k \in (i + 1)..(j - 1) :
           ~IsEvent(trail[k].op) /\ trail[k].op.creditsUsed > 0 /\ trail[k].status = 200
      /\ trail[j].op = trail[i].op )
    => /\ trail[j].status = 200
       /\ After(j) = Before(j)

\* C5: after a subscription-updated event with status active, a subscription-updated
\* event with status past_due that occurred earlier leaves the subscription record
\* and the account's subscription_status at active.
C5_StaleUpdateDiscarded ==
  \A i \in 1..Len(trail) :
    LET a == trail[i].op IN
    ( /\ i < Len(trail)
      /\ a.type = "customer.subscription.updated" /\ a.status = "active"
      /\ trail[i].status = 200
      /\ trail[i + 1].op.type = "customer.subscription.updated"
      /\ trail[i + 1].op.status = "past_due"
      /\ trail[i + 1].op.sub = a.sub /\ trail[i + 1].op.userId = a.userId
      /\ trail[i + 1].op.created < a.created )
    => /\ After(i + 1).subscriptions[a.sub].status = "active"
       /\ After(i + 1).profiles[a.userId].subscription_status = "active"

\* C6: a request is rejected only when the stored balance is below creditsUsed;
\* the rejecting step changes no profiles row and inserts no usage_logs row, ends
\* the request, and reports the stored balance.
C6_RejectedSpendMutatesNothing ==
  [][ \A r \in Reqs :
        (req[r].pc = "idle" /\ req'[r].resp.status = 403)
        => /\ profiles[req'[r].userId].usage_credits < req'[r].creditsUsed
           /\ profiles' = profiles
           /\ usage_logs' = usage_logs
           /\ req'[r].pc = "done"
           /\ req'[r].resp.creditsRemaining = profiles[req'[r].userId].usage_credits
    ]_vars

\* A spend of 5 was accepted on the new account and a later one was rejected with
\* 5 credits remaining.
C6_Witness ==
  \E r \in Reqs :
    /\ req[r].resp = [status |-> 403, creditsRemaining |-> 5]
    /\ Len(usage_logs) = 1
    /\ Quiescent

\* C7: after any interleaving of concurrent spends, each of a positive number of
\* credits, once no handler is mid-flight usage_credits equals the balance set by
\* the last reset (or at creation) minus the credits logged since.
C7_LedgerAuditable ==
  ( /\ Quiescent /\ hook.pc = "idle"
    /\ \A i \in 1..Len(usage_logs) : usage_logs[i].credits_used > 0 )
  => \A u \in Users :
      profiles[u].usage_credits = audit.base - CreditsLogged(usage_logs, audit.mark)

\* C8: one credit reset to limit L and one accepted spend of n > 0 credits, both
\* complete: the balance is L or L - n.
C8_ResetAtomicWithSpend ==
  ( /\ Quiescent
    /\ hook.pc = "done" /\ hook.resp = 200
    /\ \/ ShouldResetCredits(hook.ev)
       \/ hook.ev.type = "invoice.payment_succeeded"
    /\ Accepted = {1} /\ req[1].creditsUsed > 0
    /\ \A r \in Reqs : r # 1 => req[r].pc = "idle" )
  => LET L == TierForPrice(hook.ev.price).usageLimit
         n == req[1].creditsUsed
     IN profiles[hook.userId].usage_credits \in {L, L - n}

\* C9: an acknowledged invoice.payment_succeeded event whose subscription price
\* resolves to (tier, limit) leaves the account with that tier, usage_limit = limit
\* and usage_credits = limit.
C9_InvoicePaidSetsTierAndCredits ==
  \A i \in 1..Len(trail) :
    LET e == trail[i].op IN
    (e.type = "invoice.payment_succeeded" /\ trail[i].status = 200)
    => LET t == TierForPrice(e.price)
           row == After(i).profiles[Before(i).subscriptions[e.sub].user_id]
       IN /\ row.subscription_tier = t.tier
          /\ row.usage_limit = t.usageLimit
          /\ row.usage_credits = t.usageLimit

\* C10: an acknowledged customer.subscription.deleted event leaves the account with
\* tier free, status canceled, the usage_limit a new (free) account is given, and
\* usage_credits as it was.
C10_DeletedDowngradesKeepsCredits ==
  \A i \in 1..Len(trail) :
    LET e == trail[i].op IN
    (e.type = "customer.subscription.deleted" /\ trail[i].status = 200)
    => LET row == After(i).profiles[e.userId] IN
       /\ row.subscription_tier = "free"
       /\ row.subscription_status = "canceled"
       /\ row.usage_limit = handle_new_user.usage_limit
       /\ row.usage_credits = Before(i).profiles[e.userId].usage_credits

\* A created/updated event that is not a transition into active: its status is not
\* active, or it is an update to active from active or with no previous status.
NotIntoActive(e) ==
  /\ e.type \in {"customer.subscription.created", "customer.subscription.updated"}
  /\ \/ e.status # "active"
     \/ e.type = "customer.subscription.updated" /\ e.prev \in {"active", None}

\* The ledger fields of a profiles row.
Ledger(row) ==
  [usage_credits |-> row.usage_credits, usage_limit |-> row.usage_limit,
   subscription_tier |-> row.subscription_tier]

\* C11: a created/updated subscription event that is not a transition into active
\* leaves usage_credits, usage_limit and subscription_tier of every account as
\* they were.
C11_RefillOnlyOnActivation ==
  \A e \in Events :
    NotIntoActive(e) =>
      \A u \in Users :
        Ledger(HandleEvent(profiles, subscriptions, e).profiles[u]) = Ledger(profiles[u])

\* A new account after a subscription event with status past_due: the record and
\* the account status follow the event, the ledger fields are as at signup.
C11_Witness ==
  /\ subscriptions["sub_1"] # NoRow
  /\ subscriptions["sub_1"].status = "past_due"
  /\ subscriptions["sub_1"].price_id = "price_premium"
  /\ profiles["u1"].subscription_status = "past_due"
  /\ Ledger(profiles["u1"]) = Ledger(handle_new_user)

\* C12: an acknowledged customer.subscription.updated event that is not a
\* transition into active leaves every profiles row as it was (usage_credits,
\* usage_limit, subscription_tier and subscription_status).
C12_PlainUpdateLeavesAccount ==
  \A i \in 1..Len(trail) :
    LET e == trail[i].op IN
    ( /\ e.type = "customer.subscription.updated"
      /\ NotIntoActive(e)
      /\ trail[i].status = 200 )
    => After(i).profiles = Before(i).profiles

\* C13: every step of the handler on an invoice.payment_failed event leaves the
\* subscriptions table, the usage_logs table and the ledger fields of every
\* account as they were, and changes subscription_status only to past_due; when
\* it acknowledges the event, the subscriber's subscription_status is past_due.
C13_PaymentFailedTouchesStatusOnly ==
  [][ (hook' # hook /\ hook'.ev.type = "invoice.payment_failed")
      => /\ subscriptions' = subscriptions
         /\ usage_logs' = usage_logs
         /\ \A u \in Users :
              /\ Ledger(profiles'[u]) = Ledger(profiles[u])
              /\ profiles'[u].subscription_status
                   \in {profiles[u].subscription_status, "past_due"}
         /\ (hook'.pc = "done" /\ hook'.resp = 200)
              => profiles'[hook'.userId].subscription_status = "past_due"
    ]_vars

\* An invoice.payment_failed event was acknowledged after a spend was logged.
C13_Witness ==
  /\ hook.pc = "done" /\ hook.resp = 200
  /\ hook.ev.type = "invoice.payment_failed"
  /\ profiles["u1"].subscription_status = "past_due"
  /\ Len(usage_logs) > 0

\* C14: a request whose signature is missing or fails verification is answered
\* in one step that changes no profiles, subscriptions or usage_logs row, and the
\* answer is 400.
C14_BadSignatureRejected ==
  [][ (hook' # hook /\ hook'.signature \in {"missing", "invalid"})
      => /\ profiles' = profiles
         /\ subscriptions' = subscriptions
         /\ usage_logs' = usage_logs
         /\ hook.pc = "idle" /\ hook'.pc = "done"
         /\ hook'.ev = NoEvent
         /\ hook'.resp = 400
    ]_vars

\* A request with a signature that fails verification was answered while a spend
\* was between its log insert and its balance write.
C14_Witness ==
  /\ hook.pc = "done" /\ hook.signature = "invalid" /\ hook.resp = 400
  /\ \E r \in Reqs : req[r].pc = "update"

\* The event types the switch has a case for.
HandledTypes ==
  {"customer.subscription.created", "customer.subscription.updated",
   "customer.subscription.deleted", "invoice.payment_succeeded",
   "invoice.payment_failed"}

\* C15: a verified event of a type the switch has no case for is answered in one
\* step with 200, and the step changes no profiles, subscriptions or usage_logs row.
C15_UnknownTypeAcknowledged ==
  [][ ( /\ hook' # hook
        /\ hook'.signature = "valid" /\ hook'.ev # NoEvent
        /\ hook'.ev.type \notin HandledTypes )
      => /\ profiles' = profiles
         /\ subscriptions' = subscriptions
         /\ usage_logs' = usage_logs
         /\ hook.pc = "idle" /\ hook'.pc = "done"
         /\ hook'.resp = 200
    ]_vars

\* A charge.succeeded event was acknowledged while a spend was between its log
\* insert and its balance write.
C15_Witness ==
  /\ hook.pc = "done" /\ hook.resp = 200
  /\ hook.ev.type = "charge.succeeded"
  /\ \E r \in Reqs : req[r].pc = "update"

\* A created/updated event that is a transition into active.
IntoActive(e) ==
  /\ e.type \in {"customer.subscription.created", "customer.subscription.updated"}
  /\ e.status = "active"
  /\ e.type = "customer.subscription.updated" => e.prev \notin {"active", None}

\* The webhook has acknowledged an event whose handling resolved the tier.
ResolvedBy(h) ==
  /\ h.pc = "done" /\ h.resp = 200
  /\ IntoActive(h.ev) \/ h.ev.type = "invoice.payment_succeeded"

\* C16: after the handler resolved the tier of 'Acme Premium Plan' the account has
\* limit 2000 (and tier premium, where the tier is written); of 'Acme Basic' and of
\* a price with no product name, limit 500 (tier basic); no product name resolves
\* to the free tier.
C16_TierByProductName ==
  ResolvedBy(hook) =>
    LET row == profiles[hook.userId]
        p == hook.ev.price
    IN /\ p = "price_premium" =>
            /\ row.usage_limit = 2000
            /\ IntoActive(hook.ev) => row.subscription_tier = "premium"
       /\ p \in {"price_basic", "price_unlisted"} =>
            /\ row.usage_limit = 500
            /\ IntoActive(hook.ev) => row.subscription_tier = "basic"
       /\ IntoActive(hook.ev) => row.subscription_tier # "free"

\* A new account was activated on the price of 'Acme Premium Plan'.
C16_Witness ==
  /\ hook.pc = "done" /\ hook.resp = 200
  /\ hook.ev.type = "customer.subscription.created"
  /\ hook.ev.status = "active" /\ hook.ev.price = "price_premium"
  /\ profiles["u1"].subscription_tier = "premium"
  /\ profiles["u1"].usage_limit = 2000
  /\ audit.base = 2000 /\ audit.mark > 0

\* C17: after the handler resolved the tier of a product whose name contains
\* 'enterprise' in any letter case ('ENTERPRISE', 'Enterprise Premium'), the
\* account has limit 10000 (and tier enterprise, where the tier is written).
C17_EnterpriseTestedFirst ==
  ( /\ ResolvedBy(hook)
    /\ hook.ev.price \in {"price_enterprise", "price_bundle"} )
  => /\ profiles[hook.userId].usage_limit = 10000
     /\ IntoActive(hook.ev) => profiles[hook.userId].subscription_tier = "enterprise"

\* C18: the gate decides inside one atomic spend. It returns allowed exactly when
\* the handler accepted the spend; a denial for insufficient credits carries the
\* remaining balance; and from the gate's check to the spend's decrement the
\* stored balance is the one the gate checked (no other spend comes in between).
C18_GateDecidesAtomically ==
  \A r \in Reqs :
    /\ req[r].pc = "returned" =>
         /\ req[r].result.allowed <=> req[r].resp.status = 200
         /\ ~req[r].result.allowed => "creditsRemaining" \in DOMAIN req[r].result
    /\ req[r].pc \in {"gated", "insert"} =>
         profiles[req[r].userId].usage_credits = req[r].checked

\* C19: no usage_logs row has credits_used <= 0 and no accepted request asked for
\* creditsUsed <= 0.
C19_SpendsArePositive ==
  /\ \A i \in 1..Len(usage_logs) : usage_logs[i].credits_used > 0
  /\ \A r \in Accepted : req[r].creditsUsed > 0

\* C20: once a customer.subscription.deleted event has set the subscription record
\* and the account's subscription_status to canceled, the next event for that
\* subscription, if it is a customer.subscription.updated, invoice.payment_succeeded
\* or invoice.payment_failed event, leaves both at canceled.
C20_CanceledIsTerminal ==
  \A i \in 1..Len(trail) :
    LET d == trail[i].op IN
    ( /\ i < Len(trail)
      /\ d.type = "customer.subscription.deleted" /\ trail[i].status = 200
      /\ After(i).subscriptions[d.sub] # NoRow
      /\ After(i).subscriptions[d.sub].status = "canceled"
      /\ After(i).profiles[d.userId].subscription_status = "canceled"
      /\ trail[i + 1].op.type \in {"customer.subscription.updated",
                                   "invoice.payment_succeeded", "invoice.payment_failed"}
      /\ trail[i + 1].op.sub = d.sub )
    => /\ After(i + 1).subscriptions[d.sub].status = "canceled"
       /\ After(i + 1).profiles[d.userId].subscription_status = "canceled"

C22_FailedSpendChargesNothing ==
  ( /\ Quiescent /\ hook.pc = "idle"
    /\ Accepted = {} )
  => /\ usage_logs = <<>>
     /\ \A u \in Users : profiles[u].usage_credits = audit.base

\* C23: when the handler answers a created/updated event with 500, none of the
\* event's writes is visible (no subscription record has status past_due before
\* the event, so one that has it afterwards shows the event's upsert); when it
\* answers with 200, the record and the account status are the event's.
C23_EventAllOrNothing ==
  ( /\ hook.pc = "done"
    /\ hook.ev.type \in {"customer.subscription.created", "customer.subscription.updated"}
    /\ hook.ev.userId # None
    /\ hook.ev.status = "past_due"
    /\ \A r \in Reqs : req[r].pc = "idle" )
  => /\ hook.resp = 500 =>
          /\ subscriptions[hook.ev.sub] # NoRow => subscriptions[hook.ev.sub].status # "past_due"
          /\ profiles[hook.ev.userId].subscription_status # "past_due"
     /\ hook.resp = 200 =>
          /\ subscriptions[hook.ev.sub].status = "past_due"
          /\ profiles[hook.ev.userId].subscription_status = "past_due"

\* C24: when two requests carrying different events for the same subscription
\* have both been answered, the subscription record and the account are what
\* handling the two events one after the other, in one of the two orders,
\* leaves.
C24_ConcurrentEventsSerialize ==
  ( /\ \A d \in Hooks : hook[d].pc = "done"
    /\ hook[1].ev.sub = hook[2].ev.sub )
  => [profiles |-> profiles, subscriptions |-> subscriptions]
       \in { InOrder(Started, hook[1].ev, hook[2].ev),
             InOrder(Started, hook[2].ev, hook[1].ev) }

\* C25: an invoice.payment_succeeded event that names the account's subscription
\* is acknowledged and sets usage_credits to the limit of its price, whether or
\* not a subscriptions row exists when it arrives.
C25_InvoicePaidNeedsNoRecord ==
  \A i \in 1..Len(trail) :
    LET e == trail[i].op IN
    (e.type = "invoice.payment_succeeded" /\ e.sub # None)
    => /\ trail[i].status = 200
       /\ After(i).profiles["u1"].usage_credits = TierForPrice(e.price).usageLimit

\* C26: an account that was subscribed by a created event and then receives an
\* acknowledged customer.subscription.deleted event has the usage_limit a newly
\* registered account is given.
C26_DeletedReturnsToCreationLimit ==
  \A i, j \in 1..Len(trail) :
    LET a == trail[i].op
        e == trail[j].op
    IN ( /\ i < j
         /\ a.type = "customer.subscription.created" /\ trail[i].status = 200
         /\ e.type = "customer.subscription.deleted" /\ trail[j].status = 200
         /\ a.userId = e.userId )
       => After(j).profiles[e.userId].usage_limit = NEW_USER_CREDITS

\* C27: the subscriptions table never holds two rows with the same
\* stripe_subscription_id, and a created/updated event is acknowledged with
\* exactly one row for its subscription, carrying the event's status, also
\* when createSubscription inserted the row before.
C27_OneRowPerSubscription ==
  /\ \A i \in 1..Len(StripeIds) : Cardinality(RowsOf(subscriptions, StripeIds[i])) <= 1
  /\ ( /\ hook.pc = "done"
       /\ hook.ev.type \in {"customer.subscription.created", "customer.subscription.updated"} )
     => /\ hook.resp = 200
        /\ \E i \in 1..Len(subscriptions) :
             /\ RowsOf(subscriptions, hook.ev.sub) = {i}
             /\ subscriptions[i].status = hook.ev.status

C27_Witness ==
  /\ \E r \in Reqs : req[r].pc = "done" /\ req[r].resp = 200 /\ req[r].sub = "sub_1"
                     /\ req[r].status = "incomplete"
  /\ hook.pc = "done" /\ hook.resp = 200
  /\ hook.ev.type = "customer.subscription.updated" /\ hook.ev.sub = "sub_1"
  /\ Len(subscriptions) = 2
  /\ subscriptions[1].status = "active"

\* C28: when one recordUsage request for n credits has run alone and was
\* accepted, usage_logs holds exactly its one row, usage_credits is the balance
\* it found lowered by n, and the creditsRemaining it returned is the stored
\* usage_credits.
C28_SpendLowersByExactlyN ==
  \A r \in Reqs :
    ( /\ req[r].pc = "done" /\ req[r].resp.status = 200
      /\ \A q \in Reqs \ {r} : req[q].pc = "idle"
      /\ hook.pc = "idle" )
    => LET u == req[r].userId
           n == req[r].creditsUsed
       IN /\ usage_logs = <<[user_id |-> u, credits_used |-> n]>>
          /\ profiles[u].usage_credits = req[r].seen.usage_credits - n
          /\ req[r].seen.usage_credits = audit.base
          /\ req[r].resp.creditsRemaining = profiles[u].usage_credits

C28_Witness ==
  /\ req[1].pc = "done" /\ req[1].resp.status = 200 /\ req[1].creditsUsed = 5
  /\ \A q \in Reqs \ {1} : req[q].pc = "idle"
  /\ hook.pc = "idle"
  /\ profiles["u1"].usage_credits = 5
  /\ Len(usage_logs) = 1

\* The (tier, limit) pairs a paid subscription can have.
TierPairs ==
  { [tier |-> "basic", usageLimit |-> 500], [tier |-> "premium", usageLimit |-> 2000],
    [tier |-> "enterprise", usageLimit |-> 10000] }

\* C29: for every product name, and for no name, the resolutions of the
\* subscription created/updated case, of the invoice.payment_succeeded case and
\* of createSubscription give the same pair, one of (basic, 500),
\* (premium, 2000), (enterprise, 10000).
C29_TierResolutionsAgree ==
  \A i \in 1..Len(trail) :
    /\ trail[i].subscription = trail[i].invoice
    /\ trail[i].invoice = trail[i].createSubscription
    /\ trail[i].subscription \in TierPairs

C29_Witness ==
  /\ Len(trail) = 1
  /\ trail[1].name = <<"E","N","T","E","R","P","R","I","S","E">> \o <<" ">> \o premium
  /\ trail[1].createSubscription.tier = "premium"

\* C30: when the handler has acknowledged an activation or an
\* invoice.payment_succeeded event whose price has no product name, and no
\* recordUsage request has run, the account has usage_limit 500 and
\* usage_credits 500, whatever tier it had; and such an activation is always
\* acknowledged.
C30_NoProductNameResetsToBasic ==
  ( /\ hook.pc = "done" /\ hook.ev # NoEvent
    /\ ProductName(hook.ev.price) = None
    /\ \A r \in Reqs : req[r].pc = "idle" )
  => /\ (IntoActive(hook.ev) /\ hook.ev.userId # None) => hook.resp = 200
     /\ ResolvedBy(hook) =>
          /\ profiles[hook.userId].usage_limit = 500
          /\ profiles[hook.userId].usage_credits = 500

C30_Witness ==
  /\ ResolvedBy(hook)
  /\ hook.ev.price = "price_unlisted"
  /\ hook.ev.type = "invoice.payment_succeeded"
  /\ \A r \in Reqs : req[r].pc = "idle"
  /\ profiles["u1"].subscription_tier = "premium"
  /\ profiles["u1"].usage_credits = 500

=============================================================================
